---- MODULE Spec2Model ----
(***************************************************************************)
(* A model of axmldecoder's binary chunk parser and serializer            *)
(* (src/binaryxml.rs, src/stringpool.rs, src/resource_value.rs and the     *)
(* integer codec of src/lib.rs).                                           *)
(*                                                                         *)
(* Representation.  A byte is an integer 0..255, a stream is a sequence of *)
(* bytes with a 0-based position.  A u8 or a u16 is an integer.  A u32 is  *)
(* the pair <<low 16 bits, high 16 bits>>, because the model checker's     *)
(* integers are 32-bit signed and the format uses 0xFFFFFFFF throughout.   *)
(* A Rust String is the sequence of its Unicode scalar values.  An         *)
(* Option is a sequence of length 0 (None) or 1 (Some).                    *)
(***************************************************************************)
EXTENDS Integers, Sequences, FiniteSets, TLC

VARIABLES layout, input, pos, pc, elements, string_pool, resource_map,
          result, trace, output, offset, ret, doc2, codec

vars == <<layout, input, pos, pc, elements, string_pool, resource_map,
          result, trace, output, offset, ret, doc2, codec>>

parseVars == <<layout, input, pos, pc, elements, string_pool, resource_map,
               result, trace, output, offset, ret, doc2>>

(***************************************************************************)
(* u32 values held as 16-bit halves                                        *)
(***************************************************************************)
U32Of(n) == <<n % 65536, n \div 65536>>

\* the u32 is at least 2^31: larger than any length the model can hold
IsHuge(x) == x[2] >= 32768

ToInt(x) == x[1] + 65536 * x[2]

Max(a, b) == IF a < b THEN b ELSE a

(***************************************************************************)
(* The source and the sink (std::io::Cursor over a byte vector)            *)
(***************************************************************************)
\* Read::read_exact succeeds iff n more bytes are left
read_exact(b, p, n) == p + n <= Len(b)

\* the n bytes at 0-based offset p
Slice(b, p, n) == SubSeq(b, p + 1, p + n)

\* Write::write_all at the sink's position: overwrite, extend when needed
write_all(out, bytes) ==
  LET p == out.pos
      n == Len(bytes)
      m == Max(Len(out.buf), p + n)
  IN [buf |-> [i \in 1..m |-> IF i > p /\ i <= p + n THEN bytes[i - p]
                              ELSE IF i <= Len(out.buf) THEN out.buf[i]
                              ELSE 0],
      pos |-> p + n]

\* Seek::seek(SeekFrom::Start(p))
seek(out, p) == [buf |-> out.buf, pos |-> p]

(***************************************************************************)
(* byteorder::LittleEndian                                                 *)
(***************************************************************************)
LittleEndian_read_u16(buf) == buf[1] + 256 * buf[2]

LittleEndian_read_u32(buf) == <<buf[1] + 256 * buf[2], buf[3] + 256 * buf[4]>>

LittleEndian_write_u16(v) == <<v % 256, v \div 256>>

\* the bytes in big-endian order
BigEndian_write_u32(v) ==
  <<v[2] \div 256, v[2] % 256, v[1] \div 256, v[1] % 256>>

LittleEndian_write_u32(v) ==
  <<v[1] % 256, v[1] \div 256, v[2] % 256, v[2] \div 256>>

(***************************************************************************)
(* Results.  A read returns [res, val, pos]: "Ok", the value and the       *)
(* position after it, or the error (the ? operator hands a callee's error  *)
(* to the caller: Fail).  "Panic" stands for a panic or an abort.  A write *)
(* that only appends returns [bytes, n]: the bytes it hands to the sink at *)
(* the sink's position, in order, and the count it returns.                *)
(***************************************************************************)
Ok(v, p) == [res |-> "Ok", val |-> v, pos |-> p]

Err(kind, p) == [res |-> kind, val |-> <<>>, pos |-> p]

Fail(r) == [res |-> r.res, val |-> <<>>, pos |-> r.pos]

\* read_exact(..).map_err(ParseError::IoError)?
IoErr(b) == Err("IoError", Len(b))

\* two writes one after the other: n = a? + b?
Cat(r1, r2) == [bytes |-> r1.bytes \o r2.bytes, n |-> r1.n + r2.n]

Cat3(r1, r2, r3) == Cat(Cat(r1, r2), r3)

Cat4(r1, r2, r3, r4) == Cat(Cat(r1, r2), Cat(r3, r4))

(***************************************************************************)
(* src/lib.rs: the primitive codec                                         *)
(***************************************************************************)
\* what a read that succeeds at position p returns
u8_at(b, p) == b[p + 1]

u16_at(b, p) == LittleEndian_read_u16(Slice(b, p, 2))

u32_at(b, p) == LittleEndian_read_u32(Slice(b, p, 4))

read_u8(b, p) == IF read_exact(b, p, 1) THEN Ok(u8_at(b, p), p + 1) ELSE IoErr(b)

read_u16(b, p) == IF read_exact(b, p, 2) THEN Ok(u16_at(b, p), p + 2) ELSE IoErr(b)

read_u32(b, p) == IF read_exact(b, p, 4) THEN Ok(u32_at(b, p), p + 4) ELSE IoErr(b)

write_u8(v) == [bytes |-> <<v>>, n |-> 1]

write_u16(v) == [bytes |-> LittleEndian_write_u16(v), n |-> 2]

write_u32(v) == [bytes |-> LittleEndian_write_u32(v), n |-> 4]

(***************************************************************************)
(* A run of read_u8/u16/u32 calls, each followed by ?, that nothing else   *)
(* interrupts fails with IoError exactly when the stream ends before the   *)
(* last byte of the run.  Such a run is written below as one read_exact    *)
(* test for the width of the run, and the values at their offsets.         *)
(***************************************************************************)

(***************************************************************************)
(* src/binaryxml.rs: ResourceType and ChunkHeader                          *)
(***************************************************************************)
RT_NullType == 0

RT_StringPool == 1

RT_Table == 2

RT_Xml == 3

RT_XmlStartNameSpace == 256

RT_XmlEndNameSpace == 257

RT_XmlStartElement == 258

RT_XmlEndElement == 259

RT_XmlCdata == 260

RT_XmlLastChunk == 383

RT_XmlResourceMap == 384

RT_TablePackage == 512

RT_TableType == 513

RT_TableTypeSpec == 514

RT_TableLibrary == 515

\* the values ResourceType::try_from accepts
ResourceType ==
  {RT_NullType, RT_StringPool, RT_Table, RT_Xml, RT_XmlStartNameSpace,
   RT_XmlEndNameSpace, RT_XmlStartElement, RT_XmlEndElement, RT_XmlCdata,
   RT_XmlLastChunk, RT_XmlResourceMap, RT_TablePackage, RT_TableType,
   RT_TableTypeSpec, RT_TableLibrary}

\* a header read that leaves the stream where it stood
ChunkHeader_peek(b, p) ==
  IF ~read_exact(b, p, 2) THEN IoErr(b)
  ELSE IF u16_at(b, p) \notin ResourceType THEN Err("InvalidFile", p + 2)
  ELSE IF ~read_exact(b, p, 8) THEN IoErr(b)
  ELSE Ok([typ |-> u16_at(b, p), header_size |-> u16_at(b, p + 2),
           size |-> u32_at(b, p + 4)], p + 4)

\* the tag is read and converted before header_size and size are read
ChunkHeader_read_from_file(b, p) ==
  IF ~read_exact(b, p, 2) THEN IoErr(b)
  ELSE IF u16_at(b, p) \notin ResourceType THEN Err("InvalidFile", p + 2)
  ELSE IF ~read_exact(b, p, 8) THEN IoErr(b)
  ELSE Ok([typ |-> u16_at(b, p), header_size |-> u16_at(b, p + 2),
           size |-> u32_at(b, p + 4)], p + 8)

ChunkHeader_write_to_file(self) ==
  Cat3(write_u16(self.typ), write_u16(self.header_size), write_u32(self.size))

(***************************************************************************)
(* src/resource_value.rs                                                   *)
(***************************************************************************)
\* the values ResourceValueType::try_from accepts
ResourceValueType == (0..6) \cup (16..18) \cup (28..31)

\* size, res and data_type are read, data_type is converted with unwrap(),
\* then data is read
ResourceValue_read_from_file(b, p) ==
  IF ~read_exact(b, p, 4) THEN IoErr(b)
  ELSE IF u8_at(b, p + 3) \notin ResourceValueType THEN Err("Panic", p + 4)
  ELSE IF ~read_exact(b, p, 8) THEN IoErr(b)
  ELSE Ok([size |-> u16_at(b, p), res |-> u8_at(b, p + 2),
           data_type |-> u8_at(b, p + 3), data |-> u32_at(b, p + 4)], p + 8)

ResourceValue_write_to_file(self) ==
  Cat4(write_u16(self.size), write_u8(self.res), write_u8(self.data_type),
       write_u32(self.data))

(***************************************************************************)
(* src/binaryxml.rs: the resource map and the five node chunks             *)
(***************************************************************************)
\* std::mem::size_of of the three structs the writer measures
SizeOf_XmlNodeHeader == 16

SizeOf_XmlAttrExt == 20

SizeOf_XmlAttribute == 20

\* for _ in 0..k { ids.push(read_u32(input)?) }
RECURSIVE read_ids(_, _, _, _)
read_ids(b, p, k, acc) ==
  IF k = 0 THEN Ok(acc, p)
  ELSE IF ~read_exact(b, p, 4) THEN IoErr(b)
  ELSE read_ids(b, p + 4, k - 1, Append(acc, u32_at(b, p)))

\* header.size - u32::from(header.header_size) underflows when size is the
\* smaller: a build with overflow checks panics, a build without wraps to a
\* count of about 2^30 and reads ids until the stream ends.  `wraps` is the
\* build's choice.  A size of 2^31 or more also reads to the stream's end.
parse_resource_map(b, p, header, wraps) ==
  IF IsHuge(header.size)
  THEN IoErr(b)
  ELSE IF ToInt(header.size) < header.header_size
  THEN (IF wraps THEN IoErr(b) ELSE Err("Panic", p))
  ELSE read_ids(b, p, (ToInt(header.size) - header.header_size) \div 4, <<>>)

XmlNodeHeader_read_from_file(b, p, chunk_header) ==
  IF ~read_exact(b, p, 8) THEN IoErr(b)
  ELSE Ok([chunk_header |-> chunk_header, line_no |-> u32_at(b, p),
           comment |-> u32_at(b, p + 4)], p + 8)

XmlNodeHeader_write_to_file(self) ==
  Cat3(ChunkHeader_write_to_file(self.chunk_header), write_u32(self.line_no),
       write_u32(self.comment))

\* XmlStartNameSpace and XmlEndNameSpace: node header, prefix, uri
XmlNameSpace_read_from_file(b, p, chunk_header) ==
  IF ~read_exact(b, p, 16) THEN IoErr(b)
  ELSE Ok([kind |-> chunk_header.typ,
           header |-> XmlNodeHeader_read_from_file(b, p, chunk_header).val,
           prefix |-> u32_at(b, p + 8), uri |-> u32_at(b, p + 12)], p + 16)

XmlNameSpace_write_to_file(self) ==
  Cat3(XmlNodeHeader_write_to_file(self.header), write_u32(self.prefix),
       write_u32(self.uri))

XmlEndElement_read_from_file(b, p, chunk_header) ==
  IF ~read_exact(b, p, 16) THEN IoErr(b)
  ELSE Ok([kind |-> RT_XmlEndElement,
           header |-> XmlNodeHeader_read_from_file(b, p, chunk_header).val,
           ns |-> u32_at(b, p + 8), name |-> u32_at(b, p + 12)], p + 16)

XmlEndElement_write_to_file(self) ==
  Cat3(XmlNodeHeader_write_to_file(self.header), write_u32(self.ns),
       write_u32(self.name))

\* the node once ResourceValue::read_from_file has returned typed_data
XmlCdata_typed(b, p, chunk_header, typed_data) ==
  IF typed_data.res # "Ok" THEN Fail(typed_data)
  ELSE Ok([kind |-> RT_XmlCdata,
           header |-> XmlNodeHeader_read_from_file(b, p, chunk_header).val,
           data |-> u32_at(b, p + 8), typed_data |-> typed_data.val],
          typed_data.pos)

XmlCdata_read_from_file(b, p, chunk_header) ==
  IF ~read_exact(b, p, 12) THEN IoErr(b)
  ELSE XmlCdata_typed(b, p, chunk_header, ResourceValue_read_from_file(b, p + 12))

XmlCdata_write_to_file(self) ==
  Cat3(XmlNodeHeader_write_to_file(self.header), write_u32(self.data),
       ResourceValue_write_to_file(self.typed_data))

XmlAttrExt_read_from_file(b, p) ==
  IF ~read_exact(b, p, 20) THEN IoErr(b)
  ELSE Ok([ns |-> u32_at(b, p), name |-> u32_at(b, p + 4),
           attribute_start |-> u16_at(b, p + 8),
           attribute_size |-> u16_at(b, p + 10),
           attribute_count |-> u16_at(b, p + 12),
           id_index |-> u16_at(b, p + 14), class_index |-> u16_at(b, p + 16),
           style_index |-> u16_at(b, p + 18)], p + 20)

XmlAttrExt_write_to_file(self) ==
  Cat4(Cat(write_u32(self.ns), write_u32(self.name)),
       Cat(write_u16(self.attribute_start), write_u16(self.attribute_size)),
       Cat(write_u16(self.attribute_count), write_u16(self.id_index)),
       Cat(write_u16(self.class_index), write_u16(self.style_index)))

\* the attribute once ResourceValue::read_from_file has returned typed_value
XmlAttribute_typed(b, p, typed_value) ==
  IF typed_value.res # "Ok" THEN Fail(typed_value)
  ELSE Ok([ns |-> u32_at(b, p), name |-> u32_at(b, p + 4),
           raw_value |-> u32_at(b, p + 8), typed_value |-> typed_value.val],
          typed_value.pos)

XmlAttribute_read_from_file(b, p) ==
  IF ~read_exact(b, p, 12) THEN IoErr(b)
  ELSE XmlAttribute_typed(b, p, ResourceValue_read_from_file(b, p + 12))

XmlAttribute_write_to_file(self) ==
  Cat4(write_u32(self.ns), write_u32(self.name), write_u32(self.raw_value),
       ResourceValue_write_to_file(self.typed_value))

\* for _ in 0..attr_ext.attribute_count { attributes.push(read(input)?) }
RECURSIVE read_attributes(_, _, _, _)
RECURSIVE push_attribute(_, _, _, _)
read_attributes(b, p, k, acc) ==
  IF k = 0 THEN Ok(acc, p)
  ELSE push_attribute(b, k, acc, XmlAttribute_read_from_file(b, p))

\* attributes.push(r?) and the iterations left
push_attribute(b, k, acc, r) ==
  IF r.res # "Ok" THEN Fail(r)
  ELSE read_attributes(b, r.pos, k - 1, Append(acc, r.val))

\* for attr in &self.attributes { n += attr.write_to_file(output)? }
RECURSIVE write_attributes(_)
write_attributes(attrs) ==
  IF attrs = <<>> THEN [bytes |-> <<>>, n |-> 0]
  ELSE Cat(XmlAttribute_write_to_file(Head(attrs)), write_attributes(Tail(attrs)))

\* the node once the attribute loop has returned attributes
XmlStartElement_node(b, p, chunk_header, attributes) ==
  IF attributes.res # "Ok" THEN Fail(attributes)
  ELSE Ok([kind |-> RT_XmlStartElement,
           header |-> XmlNodeHeader_read_from_file(b, p, chunk_header).val,
           attr_ext |-> XmlAttrExt_read_from_file(b, p + 8).val,
           attributes |-> attributes.val], attributes.pos)

XmlStartElement_read_from_file(b, p, chunk_header) ==
  IF ~read_exact(b, p, 28) THEN IoErr(b)
  ELSE XmlStartElement_node(b, p, chunk_header,
         read_attributes(b, p + 28,
                         XmlAttrExt_read_from_file(b, p + 8).val.attribute_count,
                         <<>>))

\* the node written with the header and the attribute extension as stored
XmlStartElement_write_stored(self) ==
  Cat3(XmlNodeHeader_write_to_file(self.header),
       XmlAttrExt_write_to_file(self.attr_ext),
       write_attributes(self.attributes))

XmlStartElement_write_to_file(self) ==
  LET k == Len(self.attributes)
      h == [self.header EXCEPT !.chunk_header.size =
              U32Of(SizeOf_XmlAttrExt + SizeOf_XmlNodeHeader
                    + SizeOf_XmlAttribute * k)]
      attrext == [self.attr_ext EXCEPT !.attribute_start = SizeOf_XmlAttrExt,
                                       !.attribute_size = SizeOf_XmlAttribute,
                                       !.attribute_count = k % 65536]
  IN Cat3(XmlNodeHeader_write_to_file(h), XmlAttrExt_write_to_file(attrext),
          write_attributes(self.attributes))

\* impl XmlElement: dispatch on the variant
XmlElement_write_to_file(self) ==
  CASE self.kind = RT_XmlStartNameSpace -> XmlNameSpace_write_to_file(self)
    [] self.kind = RT_XmlEndNameSpace -> XmlNameSpace_write_to_file(self)
    [] self.kind = RT_XmlStartElement -> XmlStartElement_write_to_file(self)
    [] self.kind = RT_XmlEndElement -> XmlEndElement_write_to_file(self)
    [] self.kind = RT_XmlCdata -> XmlCdata_write_to_file(self)

(***************************************************************************)
(* Rust strings: String::from_utf16, String::from_utf8, str::len           *)
(***************************************************************************)
IsHighSurrogate(u) == u >= 55296 /\ u <= 56319

IsLowSurrogate(u) == u >= 56320 /\ u <= 57343

\* String::from_utf16: [ok, s]; a surrogate without its partner is an error
RECURSIVE from_utf16(_, _)
from_utf16(units, acc) ==
  IF units = <<>> THEN [ok |-> TRUE, s |-> acc]
  ELSE LET u == Head(units) IN
    IF ~IsHighSurrogate(u) /\ ~IsLowSurrogate(u)
    THEN from_utf16(Tail(units), Append(acc, u))
    ELSE IF IsHighSurrogate(u) /\ Len(units) >= 2 /\ IsLowSurrogate(units[2])
    THEN from_utf16(Tail(Tail(units)),
                    Append(acc, 65536 + (u - 55296) * 1024 + (units[2] - 56320)))
    ELSE [ok |-> FALSE, s |-> <<>>]

IsCont(x) == x >= 128 /\ x <= 191

\* String::from_utf8: [ok, s]; rejects stray and missing continuation bytes,
\* overlong forms, surrogates and values above U+10FFFF
RECURSIVE from_utf8(_, _)
from_utf8(bytes, acc) ==
  IF bytes = <<>> THEN [ok |-> TRUE, s |-> acc]
  ELSE LET x == Head(bytes)
           n == Len(bytes)
           bad == [ok |-> FALSE, s |-> <<>>]
       IN
    IF x < 128 THEN from_utf8(Tail(bytes), Append(acc, x))
    ELSE IF x >= 194 /\ x <= 223
    THEN (IF n >= 2 /\ IsCont(bytes[2])
          THEN from_utf8(SubSeq(bytes, 3, n),
                         Append(acc, (x - 192) * 64 + (bytes[2] - 128)))
          ELSE bad)
    ELSE IF x >= 224 /\ x <= 239
    THEN (IF n >= 3 /\ IsCont(bytes[2]) /\ IsCont(bytes[3])
          THEN LET c == (x - 224) * 4096 + (bytes[2] - 128) * 64 + (bytes[3] - 128)
               IN IF c < 2048 \/ (c >= 55296 /\ c <= 57343) THEN bad
                  ELSE from_utf8(SubSeq(bytes, 4, n), Append(acc, c))
          ELSE bad)
    ELSE IF x >= 240 /\ x <= 244
    THEN (IF n >= 4 /\ IsCont(bytes[2]) /\ IsCont(bytes[3]) /\ IsCont(bytes[4])
          THEN LET c == (x - 240) * 262144 + (bytes[2] - 128) * 4096
                        + (bytes[3] - 128) * 64 + (bytes[4] - 128)
               IN IF c < 65536 \/ c > 1114111 THEN bad
                  ELSE from_utf8(SubSeq(bytes, 5, n), Append(acc, c))
          ELSE bad)
    ELSE bad

\* char::len_utf8
len_utf8(c) == IF c < 128 THEN 1 ELSE IF c < 2048 THEN 2 ELSE IF c < 65536 THEN 3 ELSE 4

\* str::len: the length of the string in UTF-8 bytes
RECURSIVE str_len(_)
str_len(s) == IF s = <<>> THEN 0 ELSE len_utf8(Head(s)) + str_len(Tail(s))

\* "hello_world".to_string()
HelloWorld == <<104, 101, 108, 108, 111, 95, 119, 111, 114, 108, 100>>


(***************************************************************************)
(* src/stringpool.rs                                                       *)
(***************************************************************************)
\* std::mem::size_of::<StringPoolHeader>()
STRINGPOOL_HEADER_SIZE == 28

StringPoolHeader_read_from_file(b, p, chunk_header) ==
  IF ~read_exact(b, p, 20) THEN IoErr(b)
  ELSE Ok([chunk_header |-> chunk_header, string_count |-> u32_at(b, p),
           style_count |-> u32_at(b, p + 4), flags |-> u32_at(b, p + 8),
           string_start |-> u32_at(b, p + 12),
           style_start |-> u32_at(b, p + 16)], p + 20)

StringPoolHeader_write_to_file(self) ==
  Cat3(Cat(ChunkHeader_write_to_file(self.chunk_header),
           write_u32(self.string_count)),
       Cat(write_u32(self.style_count), write_u32(self.flags)),
       Cat(write_u32(self.string_start), write_u32(self.style_start)))

is_high_bit_set_16(x) == (x \div 32768) % 2 = 1

is_high_bit_set_8(x) == (x \div 128) % 2 = 1

\* a string decoder returns [res, s]
\* String::from_utf16(..).map_err(ParseError::Utf16StringParseError)
utf16_result(d) ==
  IF d.ok THEN [res |-> "Ok", s |-> d.s]
  ELSE [res |-> "Utf16StringParseError", s |-> <<>>]

\* String::from_utf8(..).map_err(ParseError::Utf8StringParseError)
utf8_result(d) ==
  IF d.ok THEN [res |-> "Ok", s |-> d.s]
  ELSE [res |-> "Utf8StringParseError", s |-> <<>>]

\* an index outside the slice panics
parse_utf16_string(string_data, off) ==
  IF off + 2 > Len(string_data) THEN [res |-> "Panic", s |-> <<>>]
  ELSE LET len == LittleEndian_read_u16(Slice(string_data, off, 2))
           string_start == off + 2
       IN
  IF is_high_bit_set_16(len) THEN [res |-> "Panic", s |-> <<>>]
  ELSE IF string_start + 2 * len > Len(string_data)
  THEN [res |-> "Panic", s |-> <<>>]
  ELSE utf16_result(from_utf16(
         [i \in 1..len |->
            LittleEndian_read_u16(Slice(string_data,
                                        string_start + 2 * (i - 1), 2))],
         <<>>))

parse_utf8_string(string_data, off) ==
  IF off + 1 >= Len(string_data) THEN [res |-> "Panic", s |-> <<>>]
  ELSE LET len == string_data[off + 2]
           string_start == off + 2
       IN
  IF is_high_bit_set_8(len) THEN [res |-> "Panic", s |-> <<>>]
  ELSE IF string_start + len > Len(string_data)
  THEN [res |-> "Panic", s |-> <<>>]
  ELSE utf8_result(from_utf8(Slice(string_data, string_start, len), <<>>))

\* LittleEndian::read_u32 of each of the first count words; the caller has
\* checked that they lie inside the buffer
parse_offsets(string_data, count) ==
  [i \in 1..count |-> LittleEndian_read_u32(Slice(string_data, 4 * (i - 1), 4))]

\* parse_fn(&string_data, offset): an offset of 2^31 or more is outside any
\* slice
parse_fn(string_data, o, is_utf8) ==
  IF IsHuge(o) THEN [res |-> "Panic", s |-> <<>>]
  ELSE IF is_utf8 THEN parse_utf8_string(string_data, ToInt(o))
  ELSE parse_utf16_string(string_data, ToInt(o))

\* for offset in offsets { strings.push(parse_fn(&string_data, offset)?) }
RECURSIVE parse_strings(_, _, _, _)
RECURSIVE push_string(_, _, _, _, _)
parse_strings(string_data, offsets, is_utf8, acc) ==
  IF offsets = <<>> THEN [res |-> "Ok", s |-> acc]
  ELSE push_string(string_data, offsets, is_utf8, acc,
                   parse_fn(string_data, Head(offsets), is_utf8))

\* strings.push(r?) and the iterations left
push_string(string_data, offsets, is_utf8, acc, r) ==
  IF r.res # "Ok" THEN r
  ELSE parse_strings(string_data, Tail(offsets), is_utf8, Append(acc, r.s))

\* the pool once the strings are decoded: strings.push("hello_world")
StringPool_strings(hdr, after, r) ==
  IF r.res # "Ok" THEN Err(r.res, after)
  ELSE Ok([header |-> hdr, strings |-> Append(r.s, HelloWorld)], after)

\* the pool once the chunk's body is read into string_pool_data
StringPool_data(hdr, string_pool_data, after) ==
  \* parse_offsets indexes string_pool_data[4*i .. 4*i+4]
  IF hdr.string_count # <<0, 0>>
     /\ (IsHuge(hdr.string_count)
         \/ 4 * ToInt(hdr.string_count) > Len(string_pool_data))
  THEN Err("Panic", after)
  \* string_start - STRINGPOOL_HEADER_SIZE, then string_pool_data[start..]
  ELSE IF IsHuge(hdr.string_start)
          \/ ToInt(hdr.string_start) < STRINGPOOL_HEADER_SIZE
          \/ ToInt(hdr.string_start) - STRINGPOOL_HEADER_SIZE
               > Len(string_pool_data)
  THEN Err("Panic", after)
  ELSE StringPool_strings(hdr, after,
         parse_strings(SubSeq(string_pool_data,
                              ToInt(hdr.string_start) - STRINGPOOL_HEADER_SIZE + 1,
                              Len(string_pool_data)),
                       parse_offsets(string_pool_data, ToInt(hdr.string_count)),
                       (hdr.flags[1] \div 256) % 2 = 1, <<>>))

\* the pool once its header hdr is read; q is the position after the header
StringPool_body(b, q, hdr) ==
  \* assert_eq!(string_pool_header.style_count, 0)
  IF hdr.style_count # <<0, 0>> THEN Err("Panic", q)
  \* size - STRINGPOOL_HEADER_SIZE in usize: an underflow panics, or wraps
  \* to a length no vector can have
  ELSE IF ~IsHuge(hdr.chunk_header.size)
          /\ ToInt(hdr.chunk_header.size) < STRINGPOOL_HEADER_SIZE
  THEN Err("Panic", q)
  ELSE IF IsHuge(hdr.chunk_header.size)
          \/ ~read_exact(b, q, ToInt(hdr.chunk_header.size) - STRINGPOOL_HEADER_SIZE)
  THEN IoErr(b)
  ELSE StringPool_data(hdr,
         Slice(b, q, ToInt(hdr.chunk_header.size) - STRINGPOOL_HEADER_SIZE),
         q + ToInt(hdr.chunk_header.size) - STRINGPOOL_HEADER_SIZE)

StringPool_read_from_file(b, p, chunk_header) ==
  IF ~read_exact(b, p, 20) THEN IoErr(b)
  ELSE StringPool_body(b, p + 20,
                       StringPoolHeader_read_from_file(b, p, chunk_header).val)

\* for i in s.chars() { n += write_u16(output, i as u16)? }
RECURSIVE write_chars(_)
write_chars(s) ==
  IF s = <<>> THEN [bytes |-> <<>>, n |-> 0]
  ELSE Cat(write_u16(Head(s) % 65536), write_chars(Tail(s)))

\* s.len() as u16, each char as u16, a zero
write_utf16_string(s) ==
  Cat3(write_u16(str_len(s) % 65536), write_chars(s), write_u16(0))

\* c = write_utf16_string(..)?; v.push(m); m += c; n += c
\* acc = [bytes, n, v]: acc.n is m, the count of string bytes before this one
push_offset(acc, c) ==
  [bytes |-> acc.bytes \o c.bytes, n |-> acc.n + c.n,
   v |-> Append(acc.v, U32Of(acc.n))]

\* for i in &self.strings { .. }
RECURSIVE write_strings(_, _)
write_strings(strings, acc) ==
  IF strings = <<>> THEN acc
  ELSE write_strings(Tail(strings),
                     push_offset(acc, write_utf16_string(Head(strings))))

\* for i in v { write_u32(output, i)? }, also the zero words written first
RECURSIVE write_words(_)
write_words(ws) ==
  IF ws = <<>> THEN [bytes |-> <<>>, n |-> 0]
  ELSE Cat(write_u32(Head(ws)), write_words(Tail(ws)))

\* output.seek(SeekFrom::Start(p)) and a write there
write_at(out, p, bytes) == write_all(seek(out, p), bytes)

\* the three seeks that follow the forward pass: r1 is the header as first
\* written, r2 the zero offsets, r3 the strings and their offsets
StringPool_patch(self, out, r1, r2, r3) ==
  LET count == Len(self.strings)
      offset_header == out.pos
      offset_start == out.pos + Len(r1.bytes)
      offset_end == out.pos + Len(r1.bytes) + Len(r2.bytes) + Len(r3.bytes)
      n == r1.n + r2.n + r3.n
      header == [self.header EXCEPT !.chunk_header.size = U32Of(n),
                                    !.string_count = U32Of(count),
                                    !.style_count = <<0, 0>>,
                                    !.string_start =
                                       U32Of(count * 4 + STRINGPOOL_HEADER_SIZE)]
  IN [out |-> seek(write_at(write_at(write_all(out, r1.bytes \o r2.bytes \o r3.bytes),
                                     offset_header,
                                     StringPoolHeader_write_to_file(header).bytes),
                            offset_start, write_words(r3.v).bytes),
                   offset_end),
      n |-> n]

\* writes to the sink and seeks in it: returns [out, n]
StringPool_write_to_file(self, out) ==
  StringPool_patch(self, out, StringPoolHeader_write_to_file(self.header),
                   write_words([i \in 1..Len(self.strings) |-> <<0, 0>>]),
                   write_strings(self.strings,
                                 [bytes |-> <<>>, n |-> 0, v |-> <<>>]))

(***************************************************************************)
(* src/binaryxml.rs: BinaryXmlDocument                                     *)
(***************************************************************************)
NodeTypes ==
  {RT_XmlStartNameSpace, RT_XmlEndNameSpace, RT_XmlStartElement,
   RT_XmlEndElement, RT_XmlCdata}

\* the read_from_file the match arm of a node tag calls
XmlElement_read_from_file(b, p, header) ==
  CASE header.typ = RT_XmlStartNameSpace -> XmlNameSpace_read_from_file(b, p, header)
    [] header.typ = RT_XmlEndNameSpace -> XmlNameSpace_read_from_file(b, p, header)
    [] header.typ = RT_XmlStartElement -> XmlStartElement_read_from_file(b, p, header)
    [] header.typ = RT_XmlEndElement -> XmlEndElement_read_from_file(b, p, header)
    [] header.typ = RT_XmlCdata -> XmlCdata_read_from_file(b, p, header)

\* the node put in front of the vector
push_front(v, x) == <<x>> \o v

\* elements.push(node)
push(v, x) == Append(v, x)

\* The locals of read_from_file:
\* st = [pos, elements, string_pool, resource_map, status]; status is "loop"
\* while the loop goes on, "eof" after the break, else the error returned.
\* string_pool = Some(StringPool::read_from_file(input, header)?)
StringPoolArm(st, r) ==
  IF r.res # "Ok" THEN [st EXCEPT !.status = r.res, !.pos = r.pos]
  ELSE [st EXCEPT !.string_pool = <<r.val>>, !.pos = r.pos]

\* resource_map = Some(parse_resource_map(input, header)?)
ResourceMapArm(st, r) ==
  IF r.res # "Ok" THEN [st EXCEPT !.status = r.res, !.pos = r.pos]
  ELSE [st EXCEPT !.resource_map = <<r.val>>, !.pos = r.pos]

\* elements.push(XmlElement::..(..::read_from_file(input, header)?))
ElementArm(st, r) ==
  IF r.res # "Ok" THEN [st EXCEPT !.status = r.res, !.pos = r.pos]
  ELSE [st EXCEPT !.elements = push(@, r.val), !.pos = r.pos]

\* the body of the loop once ChunkHeader::read_from_file has returned header
Dispatch(b, st, wraps, header) ==
  IF header.res = "IoError" THEN [st EXCEPT !.status = "eof", !.pos = header.pos]
  ELSE IF header.res # "Ok"
  THEN [st EXCEPT !.status = header.res, !.pos = header.pos]
  ELSE IF header.val.typ = RT_StringPool
  THEN StringPoolArm(st, StringPool_read_from_file(b, header.pos, header.val))
  ELSE IF header.val.typ = RT_XmlResourceMap
  THEN ResourceMapArm(st, parse_resource_map(b, header.pos, header.val, wraps))
  ELSE IF header.val.typ \in NodeTypes
  THEN ElementArm(st, XmlElement_read_from_file(b, header.pos, header.val))
  ELSE [st EXCEPT !.status = "InvalidFile", !.pos = header.pos]

\* one iteration of the chunk loop
ChunkStep(b, st, wraps) ==
  Dispatch(b, st, wraps, ChunkHeader_read_from_file(b, st.pos))

\* the two ok_or(..)? in the other order
Finish_MapFirst(st) ==
  IF st.resource_map = <<>> THEN "MissingResourceMapChunk"
  ELSE IF st.string_pool = <<>> THEN "MissingStringPoolChunk"
  ELSE "Ok"

\* Ok(Self { elements, string_pool: ..ok_or(..)?, resource_map: ..ok_or(..)? })
Finish(st) ==
  IF st.string_pool = <<>> THEN "MissingStringPoolChunk"
  ELSE IF st.resource_map = <<>> THEN "MissingResourceMapChunk"
  ELSE "Ok"

RECURSIVE chunk_loop(_, _, _)
chunk_loop(b, st, wraps) ==
  IF st.status # "loop" THEN st ELSE chunk_loop(b, ChunkStep(b, st, wraps), wraps)

NoDoc(res) == [res |-> res, elements |-> <<>>, strings |-> <<>>, resource_map |-> <<>>]

\* what read_from_file returns when the loop has ended with the locals st
Returned(st) ==
  IF st.status # "eof" THEN NoDoc(st.status)
  ELSE IF Finish(st) # "Ok" THEN NoDoc(Finish(st))
  ELSE [res |-> "Ok", elements |-> st.elements,
        strings |-> st.string_pool[1].strings,
        resource_map |-> st.resource_map[1]]

\* read_from_file once the outer header is read
Body(b, wraps, header) ==
  IF header.res # "Ok" THEN NoDoc(header.res)
  ELSE IF header.val.typ # RT_Xml THEN NoDoc("InvalidFile")
  ELSE Returned(chunk_loop(b, [pos |-> header.pos, elements |-> <<>>,
                               string_pool |-> <<>>, resource_map |-> <<>>,
                               status |-> "loop"], wraps))

\* the whole of read_from_file on the stream b read from position p:
\* [res, elements, strings, resource_map]
BinaryXmlDocument_read_from_file(b, p, wraps) ==
  Body(b, wraps, ChunkHeader_read_from_file(b, p))

\* for el in &self.elements { n += el.write_to_file(output)? }
RECURSIVE write_elements(_)
write_elements(els) ==
  IF els = <<>> THEN [bytes |-> <<>>, n |-> 0]
  ELSE Cat(XmlElement_write_to_file(Head(els)), write_elements(Tail(els)))

\* the end of write_to_file without the seek and the write of the outer size
Unpatched(off, n1, r2, r3) ==
  [out |-> write_all(r2.out, r3.bytes), n |-> n1 + r2.n + r3.n]

\* the end of write_to_file: off is the sink's position at the call, n1 the
\* count of the outer header, r2 what StringPool::write_to_file returned, r3
\* the resource map and the elements; the sink is sought to off + 4 and the
\* total is written there
Patched(off, n1, r2, r3) ==
  [out |-> write_at(write_all(r2.out, r3.bytes), off + 4,
                    write_u32(U32Of(n1 + r2.n + r3.n)).bytes),
   n |-> n1 + r2.n + r3.n]

\* the resource map and the elements, written after the string pool
MapAndElements(self) ==
  Cat3(ChunkHeader_write_to_file([typ |-> RT_XmlResourceMap, header_size |-> 8,
                                  size |-> U32Of(Len(self.resource_map) * 4 + 8)]),
       write_words(self.resource_map), write_elements(self.elements))

\* write_to_file from the write of the outer header r1 on
OuterHeaderThen(self, out, r1) ==
  Patched(out.pos, r1.n,
          StringPool_write_to_file(self.string_pool, write_all(out, r1.bytes)),
          MapAndElements(self))

\* self = [elements, string_pool, resource_map]; returns [out, n]
BinaryXmlDocument_write_to_file(self, out) ==
  OuterHeaderThen(self, out,
    ChunkHeader_write_to_file([typ |-> RT_Xml, header_size |-> 8,
                               size |-> <<0, 0>>]))

(***************************************************************************)
(* Input streams.  A layout names the chunks that follow the outer header  *)
(* and the bytes that trail the last chunk; the line_no of a node chunk is *)
(* its place in the layout, so every node of a stream is told apart.       *)
(***************************************************************************)
MaxChunks == 4

CHUNK_HEADER_SIZE == 8

W(v) == <<v % 256, v \div 256>>

D(n) == <<n % 256, (n \div 256) % 256, (n \div 65536) % 256, n \div 16777216>>

NoIndex == <<255, 255, 255, 255>>

Hdr(tag, hs, size) == W(tag) \o W(hs) \o D(size)

NodeHdr(tag, hs, size, line) == Hdr(tag, hs, size) \o D(line) \o NoIndex

Value(type, data) == W(8) \o <<0, type>> \o D(data)

Attr(name, type, data) == NoIndex \o D(name) \o NoIndex \o Value(type, data)

StartElem(size, line, astart, asize, count, attrs) ==
  NodeHdr(258, 16, size, line) \o NoIndex \o D(0) \o W(astart) \o W(asize)
    \o W(count) \o W(0) \o W(0) \o W(0) \o attrs

PoolBytes(size, count, style, flags, sstart, body) ==
  Hdr(1, 28, size) \o D(count) \o D(style) \o D(flags) \o D(sstart) \o D(0) \o body

ChunkBytes(t, i) ==
  CASE t = "Pool0" -> PoolBytes(28, 0, 0, 0, 28, <<>>)
    [] t = "PoolA" -> PoolBytes(38, 1, 0, 0, 32, D(0) \o W(1) \o W(97) \o W(0))
    [] t = "PoolAB" -> PoolBytes(50, 2, 0, 0, 36,
                         D(0) \o D(8) \o W(2) \o W(97) \o W(98) \o W(0)
                              \o W(1) \o W(99) \o W(0))
    [] t = "PoolE" -> PoolBytes(38, 1, 0, 0, 32, D(0) \o W(1) \o W(233) \o W(0))
    [] t = "PoolPair" -> PoolBytes(40, 1, 0, 0, 32,
                           D(0) \o W(2) \o W(55357) \o W(56832) \o W(0))
    [] t = "PoolSur" -> PoolBytes(38, 1, 0, 0, 32, D(0) \o W(1) \o W(55357) \o W(0))
    [] t = "PoolLong" -> PoolBytes(38, 1, 0, 0, 32, D(0) \o W(32769) \o W(97) \o W(0))
    [] t = "Pool8" -> PoolBytes(36, 1, 0, 256, 32, D(0) \o <<1, 1, 97, 0>>)
    [] t = "Pool8Bad" -> PoolBytes(36, 1, 0, 256, 32, D(0) \o <<1, 1, 200, 0>>)
    [] t = "PoolSty" -> PoolBytes(38, 1, 1, 0, 32, D(0) \o W(1) \o W(97) \o W(0))
    [] t = "PoolShort" -> PoolBytes(8, 0, 0, 0, 28, <<>>)
    [] t = "PoolOff" -> PoolBytes(38, 1, 0, 0, 32, D(6) \o W(1) \o W(97) \o W(0))
    [] t = "Map0" -> Hdr(384, 8, 8)
    [] t = "Map1" -> Hdr(384, 8, 12) \o <<3, 0, 1, 1>>
    [] t = "Map2" -> Hdr(384, 8, 16) \o <<3, 0, 1, 1>> \o <<0, 0, 1, 129>>
    [] t = "MapHs0" -> Hdr(384, 0, 8) \o <<3, 0, 1, 1>> \o <<4, 0, 1, 1>>
    [] t = "MapUnder" -> Hdr(384, 8, 4)
    [] t = "StartNs" -> NodeHdr(256, 16, 24, i) \o D(0) \o D(1)
    [] t = "EndNs" -> NodeHdr(257, 16, 24, i) \o D(0) \o D(1)
    [] t = "Start0" -> StartElem(36, i, 20, 20, 0, <<>>)
    [] t = "Start1" -> StartElem(56, i, 20, 20, 1, Attr(1, 18, 1))
    [] t = "Start2" -> StartElem(76, i, 20, 20, 2, Attr(1, 18, 1) \o Attr(0, 3, 0))
    [] t = "StartOdd" -> StartElem(60, i, 24, 24, 1, Attr(1, 16, 7))
    [] t = "StartBadType" -> StartElem(56, i, 20, 20, 1, Attr(1, 7, 1))
    [] t = "End" -> NodeHdr(259, 16, 24, i) \o NoIndex \o D(0)
    [] t = "EndOdd" -> NodeHdr(259, 16, 32, i) \o NoIndex \o D(0)
    [] t = "EndSmall" -> NodeHdr(259, 16, 8, i) \o NoIndex \o D(0)
    [] t = "EndHs4" -> NodeHdr(259, 4, 24, i) \o NoIndex \o D(0)
    [] t = "Cdata" -> NodeHdr(260, 16, 28, i) \o D(0) \o Value(3, 0)
    [] t = "CdataOdd" -> NodeHdr(260, 16, 40, i) \o D(0) \o Value(3, 0)
    [] t = "CdataBadType" -> NodeHdr(260, 16, 28, i) \o D(0) \o Value(255, 0)
    [] t = "Null" -> Hdr(0, 8, 8)
    [] t = "Table" -> Hdr(2, 8, 8)
    [] t = "Xml" -> Hdr(3, 8, 8)
    [] t = "LastChunk" -> Hdr(383, 8, 8)
    [] t = "TablePackage" -> Hdr(512, 8, 8)
    [] t = "TableType" -> Hdr(513, 8, 8)
    [] t = "TableTypeSpec" -> Hdr(514, 8, 8)
    [] t = "TableLibrary" -> Hdr(515, 8, 8)
    [] t = "Unknown" -> Hdr(153, 8, 8)

PoolChunks ==
  {"Pool0", "PoolA", "PoolAB", "PoolE", "PoolPair", "PoolSur", "PoolLong",
   "Pool8", "Pool8Bad", "PoolSty", "PoolShort", "PoolOff"}

MapChunks == {"Map0", "Map1", "Map2", "MapHs0", "MapUnder"}

NodeChunks ==
  {"StartNs", "EndNs", "Start0", "Start1", "Start2", "StartOdd", "StartBadType",
   "End", "EndOdd", "EndSmall", "EndHs4", "Cdata", "CdataOdd", "CdataBadType"}

OtherChunks ==
  {"Null", "Table", "Xml", "LastChunk", "TablePackage", "TableType",
   "TableTypeSpec", "TableLibrary", "Unknown"}

\* the chunks every order of which is tried
CoreChunks == {"PoolA", "Map1", "Start1", "End", "Cdata"}

\* the first k bytes, 1 <= k <= 7, of an EndElement, a Table and an unknown
\* chunk header
Tails ==
  {SubSeq(h, 1, k) : h \in {Hdr(259, 16, 24), Hdr(2, 8, 8), Hdr(153, 8, 8)},
                     k \in 1..(CHUNK_HEADER_SIZE - 1)}

Lay(o, c, t) == [outer |-> o, chunks |-> c, tail |-> t]

Layouts ==
  {Lay("Xml", c, <<>>) : c \in UNION {[1..k -> CoreChunks] : k \in 0..MaxChunks}}
  \cup {Lay("Xml", <<p, "Map1", "End">>, <<>>) : p \in PoolChunks}
  \cup {Lay("Xml", <<"PoolA", m, "End">>, <<>>) : m \in MapChunks}
  \cup {Lay("Xml", <<"PoolAB", "Map2", n>>, <<>>) : n \in NodeChunks}
  \cup {Lay("Xml", <<"PoolA", "Map0", n, "EndNs">>, <<>>) : n \in NodeChunks}
  \cup {Lay("Xml", <<"PoolA", "Map1", x>>, <<>>) : x \in OtherChunks}
  \cup {Lay("Xml", c, t) : c \in {<<>>, <<"PoolA">>, <<"PoolA", "Map1">>,
                                  <<"PoolA", "Map1", "End">>},
                           t \in Tails}
  \cup {Lay(o, <<"PoolA", "Map1">>, <<>>) : o \in {"StringPool", "Unknown"}}
  \cup {Lay("Xml", <<>>, t) : t \in {<<>>} \cup Tails}
  \cup {Lay("None", <<>>, t) : t \in {<<>>} \cup Tails}

RECURSIVE ConcatChunks(_, _)
ConcatChunks(c, i) ==
  IF i > Len(c) THEN <<>> ELSE ChunkBytes(c[i], i) \o ConcatChunks(c, i + 1)

\* the outer header declares the length of the whole stream
OuterBytes(o, len) ==
  CASE o = "Xml" -> Hdr(3, 8, 8 + len)
    [] o = "StringPool" -> Hdr(1, 8, 8 + len)
    [] o = "Unknown" -> Hdr(153, 8, 8 + len)
    [] o = "None" -> <<>>

StreamOf(l) ==
  LET body == ConcatChunks(l.chunks, 1) \o l.tail
  IN OuterBytes(l.outer, Len(body)) \o body

\* the sink's position when write_to_file is called; the sink holds that
\* many earlier bytes
SinkOffsets == {0, 3}

(***************************************************************************)
(* The parser and the serializer as a state machine                        *)
(***************************************************************************)
NoCodec == [w |-> 0, first |-> "none", x0 |-> 0, b0 |-> <<>>, val |-> 0,
            buf |-> <<>>, n |-> 0, step |-> 0]

Init ==
  /\ layout \in Layouts
  /\ input = StreamOf(layout)
  /\ pos = 0
  /\ pc = "header"
  /\ elements = <<>>
  /\ string_pool = <<>>
  /\ resource_map = <<>>
  /\ result = "None"
  /\ trace = <<>>
  /\ output = [buf |-> <<>>, pos |-> 0]
  /\ offset = 0
  /\ ret = 0
  /\ doc2 = NoDoc("None")
  /\ codec = NoCodec

\* the outer header is read: the tag other than Xml is refused
XmlHeaderRead(header) ==
  /\ pos' = header.pos
  /\ IF header.res # "Ok"
     THEN pc' = "done" /\ result' = header.res
     ELSE IF header.val.typ # RT_Xml
     THEN pc' = "done" /\ result' = "InvalidFile"
     ELSE pc' = "loop" /\ result' = result

\* read_from_file up to the chunk loop: the outer header
ReadXmlHeader ==
  /\ pc = "header"
  /\ XmlHeaderRead(ChunkHeader_read_from_file(input, pos))
  /\ UNCHANGED <<layout, input, elements, string_pool, resource_map, trace,
                 output, offset, ret, doc2, codec>>

\* the locals after an iteration that left them as st; trace records the tag
\* read (-1 when the stream ended before it), the header when all of it was
\* read, and how the iteration ended
ChunkRead(st, t, h) ==
  /\ pos' = st.pos
  /\ elements' = st.elements
  /\ string_pool' = st.string_pool
  /\ resource_map' = st.resource_map
  /\ pc' = IF st.status \in {"loop", "eof"} THEN st.status ELSE "done"
  /\ result' = IF st.status \in {"loop", "eof"} THEN result ELSE st.status
  /\ trace' = Append(trace,
                [at |-> pos,
                 tag |-> IF t.res = "Ok" THEN t.val ELSE -1,
                 header |-> IF h.res = "Ok" THEN <<h.val>> ELSE <<>>,
                 status |-> st.status])

\* one iteration of the chunk loop
ReadChunk ==
  /\ pc = "loop"
  /\ \E wraps \in BOOLEAN :
       ChunkRead(ChunkStep(input, [pos |-> pos, elements |-> elements,
                                   string_pool |-> string_pool,
                                   resource_map |-> resource_map,
                                   status |-> "loop"], wraps),
                 read_u16(input, pos), ChunkHeader_read_from_file(input, pos))
  /\ UNCHANGED <<layout, input, output, offset, ret, doc2, codec>>

\* read_from_file after the loop: the two ok_or(..)? and Ok(Self {..})
FinishRead ==
  /\ pc = "eof"
  /\ pc' = "done"
  /\ result' = Finish([string_pool |-> string_pool, resource_map |-> resource_map])
  /\ UNCHANGED <<layout, input, pos, elements, string_pool, resource_map, trace,
                 output, offset, ret, doc2, codec>>

Document ==
  [elements |-> elements, string_pool |-> string_pool[1],
   resource_map |-> resource_map[1]]

\* the sink and the count write_to_file returned as r
Returns(o, r) ==
  /\ output' = r.out
  /\ ret' = r.n
  /\ offset' = o

\* write_to_file of the parsed document to a sink standing at offset o
WriteToFile ==
  /\ pc = "done"
  /\ result = "Ok"
  /\ \E o \in SinkOffsets :
       Returns(o, BinaryXmlDocument_write_to_file(Document,
                    [buf |-> [i \in 1..o |-> 238], pos |-> o]))
  /\ pc' = "written"
  /\ UNCHANGED <<layout, input, pos, elements, string_pool, resource_map,
                 result, trace, doc2, codec>>

\* read_from_file of what write_to_file wrote
Reparse ==
  /\ pc = "written"
  /\ \E wraps \in BOOLEAN :
       doc2' = BinaryXmlDocument_read_from_file(output.buf, offset, wraps)
  /\ pc' = "reparsed"
  /\ UNCHANGED <<layout, input, pos, elements, string_pool, resource_map,
                 result, trace, output, offset, ret, codec>>

Next == ReadXmlHeader \/ ReadChunk \/ FinishRead \/ WriteToFile \/ Reparse

Spec == Init /\ [][Next]_vars

(***************************************************************************)
(* The primitive codec on its own: a value is written and read back, or a  *)
(* byte string is read and written back (tests::test_u8_rw and the like).  *)
(***************************************************************************)
ByteSamples == {0, 1, 43, 99, 127, 128, 255}

HalfSamples == {0, 1, 3248, 32768, 52986, 65535}

QuadSamples == {0, 12, 176, 206, 250, 255}

CodecInputs ==
  {[NoCodec EXCEPT !.w = 1, !.first = "write", !.x0 = x] : x \in 0..255}
  \cup {[NoCodec EXCEPT !.w = 1, !.first = "read", !.b0 = <<x>>] : x \in 0..255}
  \cup {[NoCodec EXCEPT !.w = 2, !.first = "write", !.x0 = a + 256 * b] :
          a \in ByteSamples, b \in ByteSamples}
  \cup {[NoCodec EXCEPT !.w = 2, !.first = "read", !.b0 = <<a, b>>] :
          a \in ByteSamples, b \in ByteSamples}
  \cup {[NoCodec EXCEPT !.w = 4, !.first = "write", !.x0 = <<lo, hi>>] :
          lo \in HalfSamples, hi \in HalfSamples}
  \cup {[NoCodec EXCEPT !.w = 4, !.first = "read", !.b0 = <<a, b, c, d>>] :
          a \in QuadSamples, b \in QuadSamples, c \in QuadSamples,
          d \in QuadSamples}

InitCodec ==
  /\ layout = Lay("None", <<>>, <<>>)
  /\ input = <<>>
  /\ pos = 0
  /\ pc = "codec"
  /\ elements = <<>>
  /\ string_pool = <<>>
  /\ resource_map = <<>>
  /\ result = "None"
  /\ trace = <<>>
  /\ output = [buf |-> <<>>, pos |-> 0]
  /\ offset = 0
  /\ ret = 0
  /\ doc2 = NoDoc("None")
  /\ codec \in CodecInputs

CanWrite(w) ==
  /\ pc = "codec"
  /\ codec.w = w
  /\ \/ codec.first = "write" /\ codec.step = 0
     \/ codec.first = "read" /\ codec.step = 1

CanRead(w) ==
  /\ pc = "codec"
  /\ codec.w = w
  /\ \/ codec.first = "read" /\ codec.step = 0
     \/ codec.first = "write" /\ codec.step = 1

\* the value to write: the input, or what the read before returned
Written == IF codec.step = 0 THEN codec.x0 ELSE codec.val

\* the bytes to read: the input, or what the write before left in the sink
Source == IF codec.step = 0 THEN codec.b0 ELSE codec.buf

DidWrite(r) ==
  /\ codec' = [codec EXCEPT
                 !.buf = write_all([buf |-> <<>>, pos |-> 0], r.bytes).buf,
                 !.n = r.n, !.step = @ + 1]
  /\ UNCHANGED parseVars

DidRead(r) ==
  /\ r.res = "Ok"
  /\ codec' = [codec EXCEPT !.val = r.val, !.step = @ + 1]
  /\ UNCHANGED parseVars

WriteU8 == CanWrite(1) /\ DidWrite(write_u8(Written))

WriteU16 == CanWrite(2) /\ DidWrite(write_u16(Written))

WriteU32 == CanWrite(4) /\ DidWrite(write_u32(Written))

ReadU8 == CanRead(1) /\ DidRead(read_u8(Source, 0))

ReadU16 == CanRead(2) /\ DidRead(read_u16(Source, 0))

ReadU32 == CanRead(4) /\ DidRead(read_u32(Source, 0))

NextCodec == WriteU8 \/ WriteU16 \/ WriteU32 \/ ReadU8 \/ ReadU16 \/ ReadU32

SpecCodec == InitCodec /\ [][NextCodec]_vars

(***************************************************************************)
(* What the properties speak of                                            *)
(***************************************************************************)
Wrote == pc \in {"written", "reparsed"}

\* flags bit 8 of the pool that was read is clear
Utf16Pool == (string_pool[1].header.flags[1] \div 256) % 2 = 0

\* a node without the framing fields write_to_file recomputes
Skeleton(el) ==
  CASE el.kind \in {RT_XmlStartNameSpace, RT_XmlEndNameSpace} ->
         <<el.kind, el.header.line_no, el.header.comment, el.prefix, el.uri>>
    [] el.kind = RT_XmlStartElement ->
         <<el.kind, el.header.line_no, el.header.comment, el.attr_ext.ns,
           el.attr_ext.name, el.attr_ext.id_index, el.attr_ext.class_index,
           el.attr_ext.style_index, el.attributes>>
    [] el.kind = RT_XmlEndElement ->
         <<el.kind, el.header.line_no, el.header.comment, el.ns, el.name>>
    [] el.kind = RT_XmlCdata ->
         <<el.kind, el.header.line_no, el.header.comment, el.data, el.typed_data>>

Skeletons(els) == [i \in 1..Len(els) |-> Skeleton(els[i])]

\* the iterations of the chunk loop that read a whole header of this type
HeadersOf(typ) ==
  {i \in DOMAIN trace : trace[i].header # <<>> /\ trace[i].header[1].typ = typ}

\* those of them whose chunk was read to its end
ParsedOf(typ) == {i \in HeadersOf(typ) : trace[i].status = "loop"}

\* the chunk loop ended with its break
LoopEnded == trace # <<>> /\ trace[Len(trace)].status = "eof"

\* the error values read_from_file can return
ErrorValues ==
  {"InvalidFile", "MissingStringPoolChunk", "MissingResourceMapChunk",
   "Utf8StringParseError", "Utf16StringParseError", "IoError"}

\* the tags the match of the chunk loop has an arm for
Dispatched == {RT_StringPool, RT_XmlResourceMap} \cup NodeTypes

BadHeader(h) ==
  h.header_size < CHUNK_HEADER_SIZE
    \/ (~IsHuge(h.size) /\ ToInt(h.size) < h.header_size)

\* <<tag, line_no>> of the node chunks of a layout, in stream order
RECURSIVE OnDisk(_, _)
OnDisk(c, i) ==
  IF i > Len(c) THEN <<>>
  ELSE IF c[i] \in NodeChunks
  THEN <<<<LittleEndian_read_u16(ChunkBytes(c[i], i)), i>>>> \o OnDisk(c, i + 1)
  ELSE OnDisk(c, i + 1)

InMemory(els) == [i \in 1..Len(els) |-> <<els[i].kind, ToInt(els[i].header.line_no)>>]

\* The chunks found in a byte string by the layout of the format alone: the
\* length of a pool or a map is its size field, the length of a node is fixed
\* by its tag (and attribute count).  [tags, lines, end].
WordAt(b, p) == b[p + 1] + 256 * b[p + 2]

NodeLen(b, p) ==
  LET tag == WordAt(b, p) IN
  IF tag \in {RT_XmlStartNameSpace, RT_XmlEndNameSpace, RT_XmlEndElement} THEN 24
  ELSE IF tag = RT_XmlCdata THEN 28
  ELSE IF tag = RT_XmlStartElement /\ p + 30 <= Len(b) THEN 36 + 20 * WordAt(b, p + 28)
  ELSE 0

RECURSIVE WalkNodes(_, _, _)
WalkNodes(b, p, acc) ==
  IF p + CHUNK_HEADER_SIZE > Len(b) \/ NodeLen(b, p) = 0
     \/ p + NodeLen(b, p) > Len(b)
  THEN [nodes |-> acc, end |-> p]
  ELSE WalkNodes(b, p + NodeLen(b, p),
                 Append(acc, <<WordAt(b, p), WordAt(b, p + 8)>>))

\* the output from the sink offset on: outer header, pool, map, nodes
Walk(b, o) ==
  LET pool == o + CHUNK_HEADER_SIZE
      map == pool + WordAt(b, pool + 4)
      nodes == WalkNodes(b, map + WordAt(b, map + 4), <<>>)
  IN [outer |-> WordAt(b, o), pool |-> WordAt(b, pool), map |-> WordAt(b, map),
      nodes |-> nodes.nodes, end |-> nodes.end]

(***************************************************************************)
(* Properties                                                              *)
(***************************************************************************)
\* C1: a stream that parses, with a UTF-16 pool without styles, parses
\* after write_to_file to a document with the same nodes, attributes and
\* string pool contents as the first parse.
C1_RoundTrip ==
  (pc = "reparsed" /\ Utf16Pool) =>
    /\ doc2.res = "Ok"
    /\ Skeletons(doc2.elements) = Skeletons(elements)
    /\ doc2.strings = string_pool[1].strings

\* C2: once a second StringPool or a second XmlResourceMap chunk has been
\* read at chunk level, the parse fails with InvalidFile.
C2_DuplicateRejected ==
  (pc = "done" /\ (Cardinality(HeadersOf(RT_StringPool)) >= 2
                   \/ Cardinality(HeadersOf(RT_XmlResourceMap)) >= 2))
    => result = "InvalidFile"

\* C3: when the chunk loop ends and no StringPool chunk was read the result
\* is MissingStringPoolChunk; with a pool but no XmlResourceMap chunk it is
\* MissingResourceMapChunk; a document is returned only if both were read.
C3_MissingChunks ==
  pc = "done" =>
    /\ (LoopEnded /\ ParsedOf(RT_StringPool) = {})
          => result = "MissingStringPoolChunk"
    /\ (LoopEnded /\ ParsedOf(RT_StringPool) # {} /\ ParsedOf(RT_XmlResourceMap) = {})
          => result = "MissingResourceMapChunk"
    /\ result = "Ok" => /\ LoopEnded
                        /\ ParsedOf(RT_StringPool) # {}
                        /\ ParsedOf(RT_XmlResourceMap) # {}

C3_Witness ==
  /\ pc = "done"
  /\ result = "MissingStringPoolChunk"
  /\ ParsedOf(RT_XmlResourceMap) # {}

\* C4: the chunk loop ends normally only when no byte is left at a chunk
\* boundary; with 1 to 7 bytes left the header read is a fatal Io error.
C4_OnlyBoundaryEndsLoop ==
  \A i \in DOMAIN trace :
    LET left == Len(input) - trace[i].at IN
      /\ trace[i].status = "eof" => left = 0
      /\ left \in 1..(CHUNK_HEADER_SIZE - 1) => trace[i].status = "IoError"

\* C5: every tag read at chunk level that the loop has no arm for, in the
\* ResourceType enumeration or not, makes the parse fail with InvalidFile.
C5_UndispatchedTagRejected ==
  \A i \in DOMAIN trace :
    (trace[i].tag # -1 /\ trace[i].tag \notin Dispatched)
      => (trace[i].status = "InvalidFile" /\ result = "InvalidFile")

\* C6: a chunk header with size < header_size or header_size < 8 is rejected
\* with an error value: its chunk is not accepted and nothing is computed
\* from it.
C6_BadHeaderRejected ==
  \A i \in DOMAIN trace :
    (trace[i].header # <<>> /\ BadHeader(trace[i].header[1]))
      => trace[i].status \in ErrorValues

\* C7: the nodes of a parsed document are the node chunks of the stream in
\* stream order, whatever pool or map chunks lie between them, and
\* write_to_file emits the node chunks in the order of the document.
C7_NodeOrder ==
  /\ (pc = "done" /\ result = "Ok") => InMemory(elements) = OnDisk(layout.chunks, 1)
  /\ Wrote => Walk(output.buf, offset).nodes = InMemory(elements)

C7_Witness ==
  /\ Wrote
  /\ layout.chunks = <<"End", "PoolA", "Start1", "Map1">>
  /\ Len(elements) = 2

\* C8: write_to_file at sink offset o emits the outer Xml header, the pool,
\* the map and every node, in this order, returns the count n of the bytes
\* emitted, and leaves n in the size field at o + 4.
C8_WriteLayout ==
  Wrote =>
    LET w == Walk(output.buf, offset) IN
      /\ w.outer = RT_Xml
      /\ w.pool = RT_StringPool
      /\ w.map = RT_XmlResourceMap
      /\ Len(w.nodes) = Len(elements)
      /\ \A i \in 1..Len(elements) : w.nodes[i][1] = elements[i].kind
      /\ w.end = Len(output.buf)
      /\ ret = Len(output.buf) - offset
      /\ LittleEndian_read_u32(Slice(output.buf, offset + 4, 4)) = U32Of(ret)
      /\ \A i \in 1..offset : output.buf[i] = 238

C8_Witness ==
  /\ Wrote
  /\ offset = 3
  /\ Len(elements) >= 2
  /\ Len(resource_map[1]) >= 1

\* C9: after write_to_file at sink offset o returned n, the sink stands at
\* o + n, the end of the document.
C9_PositionAtEnd == Wrote => output.pos = offset + ret

\* C10: write_u8, write_u16 and write_u32 emit 1, 2 and 4 bytes, least
\* significant first, and return that count; reading them gives the value
\* back; reading a byte string and writing the value gives the bytes back.
LEByte(x, w, i) ==
  LET half == IF w = 4 THEN x[(i + 1) \div 2] ELSE x
  IN IF i % 2 = 1 THEN half % 256 ELSE (half \div 256) % 256

LEBytes(x, w) == [i \in 1..w |-> LEByte(x, w, i)]

C10_CodecRoundTrip ==
  pc = "codec" =>
    /\ (codec.first = "write" /\ codec.step >= 1)
          => /\ codec.n = codec.w
             /\ codec.buf = LEBytes(codec.x0, codec.w)
    /\ (codec.first = "write" /\ codec.step = 2) => codec.val = codec.x0
    /\ (codec.first = "read" /\ codec.step >= 1)
          => LEBytes(codec.val, codec.w) = codec.b0
    /\ (codec.first = "read" /\ codec.step = 2)
          => /\ codec.n = codec.w
             /\ codec.buf = codec.b0

C10_Witness ==
  /\ codec.first = "write"
  /\ codec.w = 4
  /\ codec.step = 2
  /\ codec.x0 = <<52986, 3248>>
  /\ codec.buf = <<250, 206, 176, 12>>

\* The data_type bytes the stream holds in the chunk iteration i read: of
\* the typed_data of a Cdata chunk (8 + 8 + 4 bytes before the value), of the
\* typed_value of each attribute of a StartElement chunk (8 + 8 + 20 bytes
\* before the first attribute, 20 bytes an attribute, 12 bytes before its
\* value); the type is the fourth byte of a value.
ValueTypesOf(i) ==
  LET a == trace[i].at
      typ == trace[i].header[1].typ
      starts == IF typ = RT_XmlCdata THEN {a + 20}
                ELSE IF typ = RT_XmlStartElement /\ a + 30 <= Len(input)
                THEN {a + 36 + 20 * j + 12 : j \in 0..(WordAt(input, a + 28) - 1)}
                ELSE {}
  IN {input[p + 4] : p \in {q \in starts : q + 4 <= Len(input)}}

\* iteration i read a ResourceValue whose data_type is not enumerated
UnknownTypeRead(i) ==
  /\ trace[i].header # <<>>
  /\ \E t \in ValueTypesOf(i) : t \notin ResourceValueType

\* C11: a ResourceValue of an attribute or a Cdata node with a data_type
\* outside 0x00-0x06, 0x10-0x12, 0x1C-0x1F ends the parse with an error value
\* returned to the caller, not with an abort.
C11_UnknownTypeIsError ==
  \A i \in DOMAIN trace :
    UnknownTypeRead(i) => (trace[i].status \in ErrorValues /\ result \in ErrorValues)

\* C12: the string pool of a parsed document holds as many strings as its
\* header's string_count, the number of entries of the offset table read.
C12_CountIsTableLength ==
  (pc = "done" /\ result = "Ok") =>
    Len(string_pool[1].strings) = ToInt(string_pool[1].header.string_count)

\* The length the fixed layout gives a node chunk: 8 + 8 + 8 for an
\* EndElement and a namespace chunk, 8 + 8 + 4 + 8 for a Cdata, 8 + 8 + 20 and
\* 20 an attribute for a StartElement.
FixedLen(el) ==
  IF el.kind = RT_XmlStartElement THEN 36 + 20 * Len(el.attributes)
  ELSE IF el.kind = RT_XmlCdata THEN 28
  ELSE 24

RECURSIVE SumLen(_, _)
SumLen(els, i) == IF i = 0 THEN 0 ELSE FixedLen(els[i]) + SumLen(els, i - 1)

\* where the node chunks start in the output: after the outer header, the
\* pool and the map, each as long as its size field says
NodesStart ==
  LET pool == offset + CHUNK_HEADER_SIZE
      map == pool + WordAt(output.buf, pool + 4)
  IN map + WordAt(output.buf, map + 4)

\* where the chunk of elements[i] starts in the output
EmittedAt(i) == NodesStart + SumLen(elements, i - 1)

\* the chunk at q is that of elements[i] (its tag and its line_no), and the
\* chunk of the next element, or the end of the output, follows len bytes on
ChunkOf(i, q, len) ==
  /\ q + len <= Len(output.buf)
  /\ WordAt(output.buf, q) = elements[i].kind
  /\ LittleEndian_read_u32(Slice(output.buf, q + 8, 4)) = elements[i].header.line_no
  /\ IF i < Len(elements)
     THEN /\ q + len + 2 <= Len(output.buf)
          /\ WordAt(output.buf, q + len) = elements[i + 1].kind
     ELSE q + len = Len(output.buf)

\* the 20 bytes of an attribute in the format's layout
AttrImage(a) ==
  LEBytes(a.ns, 4) \o LEBytes(a.name, 4) \o LEBytes(a.raw_value, 4)
    \o LEBytes(a.typed_value.size, 2)
    \o <<a.typed_value.res, a.typed_value.data_type>>
    \o LEBytes(a.typed_value.data, 4)

StartElements == {i \in DOMAIN elements : elements[i].kind = RT_XmlStartElement}

\* C13: a StartElement with k attributes is written as 36 + 20k bytes, with
\* size 36 + 20k, attribute_start 20, attribute_size 20, attribute_count k,
\* whatever these fields were when it was parsed, and its attributes follow
\* in their stored order.
C13_StartElementLayout ==
  Wrote =>
    \A i \in StartElements :
      LET q == EmittedAt(i)
          k == Len(elements[i].attributes)
      IN /\ ChunkOf(i, q, 36 + 20 * k)
         /\ LittleEndian_read_u32(Slice(output.buf, q + 4, 4)) = U32Of(36 + 20 * k)
         /\ WordAt(output.buf, q + 24) = 20
         /\ WordAt(output.buf, q + 26) = 20
         /\ WordAt(output.buf, q + 28) = k
         /\ \A j \in 1..k :
              Slice(output.buf, q + 36 + 20 * (j - 1), 20)
                = AttrImage(elements[i].attributes[j])

\* a StartElement parsed with other values in these fields has been written
C13_Witness ==
  /\ Wrote
  /\ \E i \in StartElements :
       /\ elements[i].attr_ext.attribute_start = 24
       /\ elements[i].header.chunk_header.size = <<60, 0>>
       /\ Len(elements[i].attributes) = 1
       /\ i < Len(elements)

\* C14: an EndElement, a namespace chunk and a Cdata are written with the
\* size of the fixed layout (24, 24, 28) in the chunk header, which is the
\* number of bytes emitted for the chunk, also when the chunk that was
\* parsed declared another size.
C14_FixedSizeWritten ==
  Wrote =>
    \A i \in DOMAIN elements \ StartElements :
      LET q == EmittedAt(i) IN
        /\ ChunkOf(i, q, FixedLen(elements[i]))
        /\ LittleEndian_read_u32(Slice(output.buf, q + 4, 4))
             = U32Of(FixedLen(elements[i]))

\* The pool chunk of the output: it follows the outer header; its size is at
\* byte 4, string_start at byte 20, the offset table at byte 28, and the
\* string-data region runs from string_start to the end of the chunk.
PoolAt == offset + CHUNK_HEADER_SIZE

StringData ==
  Slice(output.buf, PoolAt + WordAt(output.buf, PoolAt + 20),
        WordAt(output.buf, PoolAt + 4) - WordAt(output.buf, PoolAt + 20))

\* the i-th entry of the offset table
RecordedOffset(i) == WordAt(output.buf, PoolAt + STRINGPOOL_HEADER_SIZE + 4 * (i - 1))

\* the u16 code units emitted for string i: what lies between its length
\* prefix and its terminator, from its offset to the next string's
UnitsEmitted(i, count) ==
  ((IF i < count THEN RecordedOffset(i + 1) ELSE Len(StringData))
     - RecordedOffset(i) - 4) \div 2

\* C15: each string is written as a u16 prefix equal to the number of code
\* units emitted for it, the code units and a u16 zero, at the offset the
\* table records, so that parse_utf16_string at that offset decodes the
\* string written, ASCII or not.
C15_StringsDecodeAtOffsets ==
  Wrote =>
    LET strings == string_pool[1].strings IN
    \A i \in DOMAIN strings :
      LET off == RecordedOffset(i)
          units == UnitsEmitted(i, Len(strings))
      IN /\ off + 4 + 2 * units <= Len(StringData)
         /\ WordAt(StringData, off) = units
         /\ WordAt(StringData, off + 2 + 2 * units) = 0
         /\ parse_utf16_string(StringData, off) = [res |-> "Ok", s |-> strings[i]]

\* an iteration of the chunk loop: it goes on having read at least the 8
\* bytes of a header, or it ends the loop on a failed header read, or it
\* ends the parse with an error (or an abort)
IterationAdvances ==
  pc = "loop" =>
    \/ pc' = "loop" /\ pos' >= pos + CHUNK_HEADER_SIZE /\ pos' <= Len(input)
    \/ pc' = "eof" /\ trace'[Len(trace')].header = <<>>
    \/ pc' = "done" /\ result' \in ErrorValues \cup {"Panic"}

\* iteration i of the chunk loop started at least 8 bytes after the one
\* before it (the first after the outer header) and inside the stream, so
\* the loop runs at most Len(input) \div 8 times
BoundedIterations ==
  \A i \in DOMAIN trace :
    CHUNK_HEADER_SIZE * i <= trace[i].at /\ trace[i].at <= Len(input)

\* C16: read_from_file terminates on every finite stream: each iteration of
\* the chunk loop advances the stream by at least the 8 header bytes, or
\* ends the loop, or ends the parse; the loop never repeats without
\* progress, and the number of its iterations is bounded by the stream.
C16_Terminates == []BoundedIterations /\ [][IterationAdvances]_vars

\* the loop has gone through a whole stream of several chunks
C16_Witness ==
  /\ pc = "done"
  /\ result = "Ok"
  /\ Len(trace) = Len(layout.chunks) + 1
  /\ Len(layout.chunks) >= 4
  /\ pos = Len(input)

====
